---------------------------- MODULE Spec2Model ----------------------------
(***************************************************************************)
(* go-depmap: the Analyzer (pkg/analyzer) that builds the dependency graph *)
(* from type-checked packages, and the component analysis of the graph     *)
(* (pkg/graph/subgraph.go).                                                *)
(*                                                                         *)
(* The specifications share the variables:                                 *)
(*   Spec       an Analyzer constructed over a bounded input, on which     *)
(*              Analyze (collectDefinitions, analyzeDependencies) runs;    *)
(*   SpecNames  the same over functions and methods that share a name;     *)
(*   SpecGraph  a DependencyGraph whose public maps are filled directly    *)
(*              (as the tests do) and on which ComputeSubgraphs runs;      *)
(*   SpecRank   ComputeSubgraphs on graphs of five nodes;                  *)
(*   SpecScore  computeSubgraphScore called on its own;                    *)
(*   SpecQuery  a small graph that is computed, changed and queried        *)
(*              (GetSubgraphByID, GetNodeSubgraph, GetLargestSubgraph,     *)
(*              CountEdges);                                               *)
(*   SpecTraversal  the discovery loop of ComputeSubgraphs and dfs, one    *)
(*              step per loop iteration, call and return (with weak        *)
(*              fairness in SpecTraversalFair).                            *)
(***************************************************************************)
EXTENDS Integers, Sequences, FiniteSets, TLC

VARIABLES
    packages,        \* Analyzer.packages, flattened to the declarations in traversal order
    projectObjects,  \* Analyzer.projectObjects: types.Object -> Node
    Nodes,           \* DependencyGraph.Nodes: id -> Node
    Edges,           \* DependencyGraph.Edges: source id -> sequence of target ids
    Subgraphs,       \* DependencyGraph.Subgraphs: sequence of Subgraph
    analyzed,        \* number of completed Analyze calls
    computed,        \* number of ComputeSubgraphs calls since the node or edge map last changed
    call,            \* the last call of a function that only returns a value, with its arguments
    ret,             \* the value that call returned
    trav             \* the discovery loop of ComputeSubgraphs taken step by step

vars == <<packages, projectObjects, Nodes, Edges, Subgraphs, analyzed, computed,
          call, ret, trav>>

-----------------------------------------------------------------------------
(* Bounds of the model *)

MaxDecls == 3      \* declarations in the analysed input
MaxUses == 2       \* identifier occurrences (with an entry in Uses or not) in the input
MaxAnalyze == 2    \* calls of Analyze on one Analyzer

-----------------------------------------------------------------------------
(* Finite maps *)

EmptyMap == [x \in {} |-> x]

\* An assignment that keeps the value a key already has
MapPut_KeepFirst(m, k, v) ==
    [x \in (DOMAIN m) \cup {k} |-> IF x \in DOMAIN m THEN m[x] ELSE v]

\* m with key k set to v (Go: m[k] = v)
MapPut(m, k, v) == [x \in (DOMAIN m) \cup {k} |-> IF x = k THEN v ELSE m[x]]

\* Go's m[k] on a map of slices: the nil slice when k is absent
Get(m, k) == IF k \in DOMAIN m THEN m[k] ELSE <<>>

Range(s) == {s[i] : i \in DOMAIN s}

\* No discovery loop under way
NoTraversal ==
    [adjacency |-> EmptyMap, order |-> <<>>, next |-> 1, stack |-> <<>>,
     visited |-> {}, component |-> <<>>, components |-> <<>>]

-----------------------------------------------------------------------------
(* pkg/graph: node kinds and CreateNode *)

KindFunction == "function"
KindMethod == "method"
KindType == "type"

\* types.Object of a declaration is its index in the input; NilObj is the nil
\* object (no entry in TypesInfo.Defs, or no entry in TypesInfo.Uses)
NilObj == 0

\* graph.CreateNode: the composite id is PkgPath + "::" + name
CreateNode_NoSeparator(pkg, obj, name, kind, line) ==
    [ID |-> pkg.PkgPath \o name,
     Name |-> name,
     Kind |-> kind,
     Package |-> pkg.PkgPath,
     Line |-> line,
     SubgraphID |-> 0,
     SubgraphScore |-> 0]

CreateNode(pkg, obj, name, kind, line) ==
    [ID |-> pkg.PkgPath \o "::" \o name,
     Name |-> name,
     Kind |-> kind,
     Package |-> pkg.PkgPath,
     Line |-> line,
     SubgraphID |-> 0,
     SubgraphScore |-> 0]

-----------------------------------------------------------------------------
(* pkg/analyzer: collectDefinitions *)

\* The display name of a FuncDecl: a method is named by its receiver when the
\* receiver type is *Ident or Ident; any other receiver expression (a generic
\* receiver T[K], a parenthesised one) leaves the short name.
FuncName(d) ==
    IF d.recv = "ptr" THEN "(*" \o d.recvType \o ")." \o d.name
    ELSE IF d.recv = "val" THEN d.recvType \o "." \o d.name
    ELSE d.name

FuncKind(d) == IF d.recv = "none" THEN KindFunction ELSE KindMethod

\* The node collected for declaration i of the input
DeclNode(ds, i) ==
    IF ds[i].decl = "FuncDecl"
    THEN CreateNode(ds[i].pkg, ds[i].obj, FuncName(ds[i]), FuncKind(ds[i]), i)
    ELSE CreateNode(ds[i].pkg, ds[i].obj, ds[i].name, KindType, i)

Collected_AnyPackage(d) == d.obj # NilObj

\* A declaration is collected when its package belongs to a module and
\* TypesInfo.Defs has an object for its name
Collected(d) == d.pkg.Module /\ d.obj # NilObj

\* The loop of collectDefinitions from declaration i on; st = [po, nodes]
RECURSIVE CollectFrom(_, _, _)
CollectFrom(ds, i, st) ==
    IF i > Len(ds) THEN st
    ELSE IF ~Collected(ds[i]) THEN CollectFrom(ds, i + 1, st)
    ELSE LET node == DeclNode(ds, i)
         IN  CollectFrom(ds, i + 1,
                 [po |-> MapPut(st.po, ds[i].obj, node),
                  nodes |-> MapPut(st.nodes, node.ID, node)])

-----------------------------------------------------------------------------
(* pkg/analyzer: analyzeDependencies *)

\* addDep without the lookup in projectObjects: every resolved object gives an edge
addDep_NoLocalCheck(po, src, targetObj, st) ==
    LET id == DeclNode(packages, targetObj).ID
    IN  IF id = src.ID \/ id \in st.seen THEN st
        ELSE [edges |-> MapPut(st.edges, src.ID, Append(Get(st.edges, src.ID), id)),
              seen |-> st.seen \cup {id}]

\* addDep without the comparison of the target id with the source id
addDep_NoSelfCheck(po, src, targetObj, st) ==
    IF targetObj \notin DOMAIN po THEN st
    ELSE IF po[targetObj].ID \in st.seen THEN st
    ELSE [edges |-> MapPut(st.edges, src.ID,
                        Append(Get(st.edges, src.ID), po[targetObj].ID)),
          seen |-> st.seen \cup {po[targetObj].ID}]

\* addDep(targetObj) for the source node src; st = [edges, seen]
addDep(po, src, targetObj, st) ==
    IF targetObj \notin DOMAIN po THEN st
    ELSE IF po[targetObj].ID = src.ID THEN st
    ELSE IF po[targetObj].ID \in st.seen THEN st
    ELSE [edges |-> MapPut(st.edges, src.ID,
                        Append(Get(st.edges, src.ID), po[targetObj].ID)),
          seen |-> st.seen \cup {po[targetObj].ID}]

\* The walk over the identifiers of one function, from occurrence j on.
\* An identifier without an entry in TypesInfo.Uses is skipped.
RECURSIVE InspectIdents(_, _, _, _, _)
InspectIdents(po, src, idents, j, st) ==
    IF j > Len(idents) THEN st
    ELSE IF idents[j] = NilObj THEN InspectIdents(po, src, idents, j + 1, st)
    ELSE InspectIdents(po, src, idents, j + 1, addDep(po, src, idents[j], st))

\* The loop run as if the collection had only reached declaration i: the
\* lookup holds the objects declared so far
RECURSIVE AnalyzeFrom_Interleaved(_, _, _, _)
AnalyzeFrom_Interleaved(ds, po, i, edges) ==
    IF i > Len(ds) THEN edges
    ELSE IF ~ds[i].pkg.Module THEN AnalyzeFrom_Interleaved(ds, po, i + 1, edges)
    ELSE IF ds[i].decl # "FuncDecl" THEN AnalyzeFrom_Interleaved(ds, po, i + 1, edges)
    ELSE IF ds[i].obj \notin DOMAIN po THEN AnalyzeFrom_Interleaved(ds, po, i + 1, edges)
    ELSE AnalyzeFrom_Interleaved(ds, po, i + 1,
             InspectIdents([o \in {x \in DOMAIN po : x <= i} |-> po[o]],
                           po[ds[i].obj], ds[i].idents, 1,
                           [edges |-> edges, seen |-> {}]).edges)

\* The loop of analyzeDependencies from declaration i on
RECURSIVE AnalyzeFrom(_, _, _, _)
AnalyzeFrom(ds, po, i, edges) ==
    IF i > Len(ds) THEN edges
    ELSE IF ~ds[i].pkg.Module THEN AnalyzeFrom(ds, po, i + 1, edges)
    ELSE IF ds[i].decl # "FuncDecl" THEN AnalyzeFrom(ds, po, i + 1, edges)
    ELSE IF ds[i].obj \notin DOMAIN po THEN AnalyzeFrom(ds, po, i + 1, edges)
    ELSE AnalyzeFrom(ds, po, i + 1,
             InspectIdents(po, po[ds[i].obj], ds[i].idents, 1,
                           [edges |-> edges, seen |-> {}]).edges)

-----------------------------------------------------------------------------
(* The inputs of the Analyzer *)

ProjectPkg == [PkgPath |-> "a", Module |-> TRUE]
ExternalPkg == [PkgPath |-> "x", Module |-> FALSE]

\* Shapes of declarations: two init functions of one package are legal Go and
\* receive the same id
DeclShapes ==
    { [pkg |-> ProjectPkg, decl |-> "FuncDecl", name |-> "init", recv |-> "none",
       recvType |-> "", hasObj |-> TRUE],
      [pkg |-> ProjectPkg, decl |-> "FuncDecl", name |-> "m", recv |-> "ptr",
       recvType |-> "T", hasObj |-> TRUE],
      [pkg |-> ProjectPkg, decl |-> "TypeSpec", name |-> "T", recv |-> "none",
       recvType |-> "", hasObj |-> TRUE],
      [pkg |-> ExternalPkg, decl |-> "FuncDecl", name |-> "g", recv |-> "none",
       recvType |-> "", hasObj |-> TRUE],
      [pkg |-> ProjectPkg, decl |-> "FuncDecl", name |-> "h", recv |-> "none",
       recvType |-> "", hasObj |-> FALSE] }

\* The identifier occurrences of declaration i among the occurrences occ of
\* the input, each a pair <<function declaration, object denoted>>, listed by
\* declaration
RECURSIVE IdentsOf(_, _, _)
IdentsOf(occ, i, j) ==
    IF j > Len(occ) THEN <<>>
    ELSE IF occ[j][1] = i THEN <<occ[j][2]>> \o IdentsOf(occ, i, j + 1)
    ELSE IdentsOf(occ, i, j + 1)

MakeInput(sh, occ) ==
    [i \in DOMAIN sh |->
        [pkg |-> sh[i].pkg, decl |-> sh[i].decl, name |-> sh[i].name,
         recv |-> sh[i].recv, recvType |-> sh[i].recvType,
         obj |-> IF sh[i].hasObj THEN i ELSE NilObj,
         idents |-> IdentsOf(occ, i, 1)]]

\* The inputs that type-check: a package declares a name once, a receiver
\* type declares a method name once; only init may be declared repeatedly
Redeclares(a, b) ==
    /\ a.pkg = b.pkg
    /\ a.name = b.name
    /\ a.recv = b.recv
    /\ a.recvType = b.recvType
    /\ ~(a.recv = "none" /\ a.name = "init")

TypeChecks(sh) ==
    \A i, j \in DOMAIN sh : i # j => ~Redeclares(sh[i], sh[j])

\* analyzer.New(pkgs): an Analyzer over the input, with empty maps
Init ==
    /\ \E n \in 0..MaxDecls : \E sh \in {f \in [1..n -> DeclShapes] : TypeChecks(f)} :
         \E k \in 0..MaxUses :
           \E occ \in {o \in [1..k -> {i \in 1..n : sh[i].decl = "FuncDecl"}
                                         \X ({NilObj} \cup {i \in 1..n : sh[i].hasObj})] :
                           \A j \in 1..(k - 1) : o[j][1] <= o[j + 1][1]} :
             packages = MakeInput(sh, occ)
    /\ projectObjects = EmptyMap
    /\ Nodes = EmptyMap
    /\ Edges = EmptyMap
    /\ Subgraphs = <<>>
    /\ analyzed = 0
    /\ computed = 0
    /\ call = <<>>
    /\ ret = 0
    /\ trav = NoTraversal

-----------------------------------------------------------------------------
(* Analyze: collectDefinitions, then analyzeDependencies, on the maps of the
   Analyzer as the previous call left them *)

\* collectDefinitions: [po, nodes] after the scan of all declarations
collectDefinitions(ds, po, nodes) == CollectFrom(ds, 1, [po |-> po, nodes |-> nodes])

\* The loop of analyzeDependencies with the declarations visited in the
\* order given, from position k on
RECURSIVE AnalyzeInOrder(_, _, _, _, _)
AnalyzeInOrder(ds, po, order, k, edges) ==
    IF k > Len(order) THEN edges
    ELSE LET i == order[k]
         IN  IF ~ds[i].pkg.Module \/ ds[i].decl # "FuncDecl"
                   \/ ds[i].obj \notin DOMAIN po
             THEN AnalyzeInOrder(ds, po, order, k + 1, edges)
             ELSE AnalyzeInOrder(ds, po, order, k + 1,
                      InspectIdents(po, po[ds[i].obj], ds[i].idents, 1,
                                    [edges |-> edges, seen |-> {}]).edges)

\* analyzeDependencies: the edge map after the scan of all declarations
analyzeDependencies(ds, po, edges) == AnalyzeFrom(ds, po, 1, edges)

Analyze ==
    /\ analyzed < MaxAnalyze
    /\ LET c == collectDefinitions(packages, projectObjects, Nodes)
       IN  /\ projectObjects' = c.po
           /\ Nodes' = c.nodes
           /\ Edges' = analyzeDependencies(packages, c.po, Edges)
    /\ analyzed' = analyzed + 1
    /\ UNCHANGED <<packages, Subgraphs, computed, call, ret, trav>>

Next == Analyze

Spec == Init /\ [][Next]_vars

-----------------------------------------------------------------------------
(* Naming: an input of functions and methods that share the short name m *)

\* A receiver is *T ("ptr"), T ("val"), or of a generic type: *G[K]
\* ("ptrGeneric", a StarExpr over an IndexExpr) or H[K] ("valGeneric", an
\* IndexExpr)
NameShapes ==
    { [pkg |-> ProjectPkg, decl |-> "FuncDecl", name |-> "m", recv |-> "none",
       recvType |-> "", hasObj |-> TRUE],
      [pkg |-> ProjectPkg, decl |-> "FuncDecl", name |-> "m", recv |-> "ptr",
       recvType |-> "T", hasObj |-> TRUE],
      [pkg |-> ProjectPkg, decl |-> "FuncDecl", name |-> "m", recv |-> "val",
       recvType |-> "U", hasObj |-> TRUE],
      [pkg |-> ProjectPkg, decl |-> "FuncDecl", name |-> "m", recv |-> "ptrGeneric",
       recvType |-> "G", hasObj |-> TRUE],
      [pkg |-> ProjectPkg, decl |-> "FuncDecl", name |-> "m", recv |-> "valGeneric",
       recvType |-> "H", hasObj |-> TRUE],
      [pkg |-> ProjectPkg, decl |-> "TypeSpec", name |-> "T", recv |-> "none",
       recvType |-> "", hasObj |-> TRUE] }

\* analyzer.New(pkgs) over declarations that use no identifier
InitNames ==
    /\ \E n \in 0..MaxDecls : \E sh \in {f \in [1..n -> NameShapes] : TypeChecks(f)} :
         packages = MakeInput(sh, <<>>)
    /\ projectObjects = EmptyMap
    /\ Nodes = EmptyMap
    /\ Edges = EmptyMap
    /\ Subgraphs = <<>>
    /\ analyzed = 0
    /\ computed = 0
    /\ call = <<>>
    /\ ret = 0
    /\ trav = NoTraversal

SpecNames == InitNames /\ [][Next]_vars

-----------------------------------------------------------------------------
(* DependencyGraph.CountEdges: the sum of the lengths of all target lists *)

\* The number of sources in place of the lengths of their lists
SumLen_Sources(m, keys) == Cardinality(keys)

RECURSIVE SumLen(_, _)
SumLen(m, keys) ==
    IF keys = {} THEN 0
    ELSE LET k == CHOOSE x \in keys : TRUE
         IN  Len(m[k]) + SumLen(m, keys \ {k})

CountEdges == SumLen(Edges, DOMAIN Edges)

-----------------------------------------------------------------------------
(* pkg/graph/subgraph.go: computeSubgraphScore *)

\* Scores are float64 in the program; the model holds them in millionths.
\* Log2Micro(k) is math.Log2(k) in millionths, rounded down.
Log2Micro(k) ==
    CASE k = 1 -> 0
      [] k = 2 -> 1000000
      [] k = 3 -> 1584962
      [] k = 4 -> 2000000
      [] k = 5 -> 2321928
      [] k = 6 -> 2584962
      [] k = 7 -> 2807354
      [] k = 8 -> 3000000
      [] k = 9 -> 3169925
      [] k = 10 -> 3321928
      [] k = 11 -> 3459431
      [] k = 12 -> 3584962

computeSubgraphScore_NoDensity(nodeCount, edgeCount) ==
    IF nodeCount = 0 THEN 0
    ELSE nodeCount * Log2Micro(nodeCount + 1) + edgeCount * 2 * 1000000

computeSubgraphScore(nodeCount, edgeCount) ==
    IF nodeCount = 0 THEN 0
    ELSE LET nodeScore == nodeCount * Log2Micro(nodeCount + 1)
             edgeScore == edgeCount * 2 * 1000000
             maxPossibleEdges == nodeCount * (nodeCount - 1)
         IN  IF maxPossibleEdges > 0
             THEN nodeScore + edgeScore
                    + (edgeCount * nodeCount * 5 * 1000000) \div maxPossibleEdges
             ELSE nodeScore + edgeScore

-----------------------------------------------------------------------------
(* pkg/graph/subgraph.go: ComputeSubgraphs *)

\* The orders in which a range over a map with key set S may visit the keys
Orders(S) ==
    {f \in [1..Cardinality(S) -> S] : \A i, j \in DOMAIN f : i # j => f[i] # f[j]}

\* The adjacency lists without the reverse edges
AddReverse_None(adj, source, targets, k) == adj

\* The reverse edges of one source: adjacency[target] gains the source when
\* the adjacency map has the key target
RECURSIVE AddReverse(_, _, _, _)
AddReverse(adj, source, targets, k) ==
    IF k > Len(targets) THEN adj
    ELSE IF targets[k] \in DOMAIN adj
         THEN AddReverse(MapPut(adj, targets[k], Append(adj[targets[k]], source)),
                         source, targets, k + 1)
         ELSE AddReverse(adj, source, targets, k + 1)

\* The range over g.Edges, visiting the sources in the order eo
RECURSIVE AddEdgesFrom(_, _, _, _)
AddEdgesFrom(adj, edges, eo, i) ==
    IF i > Len(eo) THEN adj
    ELSE AddEdgesFrom(
             AddReverse(MapPut(adj, eo[i], Get(adj, eo[i]) \o edges[eo[i]]),
                        eo[i], edges[eo[i]], 1),
             edges, eo, i + 1)

\* The undirected adjacency lists: an empty list for every node, then the
\* forward and reverse edges
Adjacency(nodes, edges, eo) ==
    AddEdgesFrom([id \in DOMAIN nodes |-> <<>>], edges, eo, 1)

\* dfs without the loop over the neighbours
dfs_NoNeighbors(nodeID, adj, st) ==
    [visited |-> st.visited \cup {nodeID}, component |-> Append(st.component, nodeID)]

\* dfs(nodeID, adjacency, visited, component); st = [visited, component]
RECURSIVE dfs(_, _, _)
RECURSIVE dfsNeighbors(_, _, _, _)
dfs(nodeID, adj, st) ==
    dfsNeighbors(nodeID, adj, 1,
                 [visited |-> st.visited \cup {nodeID},
                  component |-> Append(st.component, nodeID)])

dfsNeighbors(nodeID, adj, k, st) ==
    IF k > Len(Get(adj, nodeID)) THEN st
    ELSE IF adj[nodeID][k] \in st.visited
         THEN dfsNeighbors(nodeID, adj, k + 1, st)
         ELSE dfsNeighbors(nodeID, adj, k + 1, dfs(adj[nodeID][k], adj, st))

\* The count of the targets without the membership test
InnerTargets_All(targets, members, k) == Len(targets) - (k - 1)

\* The edges of the members of a component that lead to a member: the count
\* over the entries of the target list of component[i], from entry k on
RECURSIVE InnerTargets(_, _, _)
InnerTargets(targets, members, k) ==
    IF k > Len(targets) THEN 0
    ELSE (IF targets[k] \in members THEN 1 ELSE 0)
           + InnerTargets(targets, members, k + 1)

\* One edge counted for every member that has an edge list
InnerEdges_PerSource(edges, component, i) ==
    Cardinality({u \in Range(component) : Get(edges, u) # <<>>})

RECURSIVE InnerEdges(_, _, _)
InnerEdges(edges, component, i) ==
    IF i > Len(component) THEN 0
    ELSE InnerTargets(Get(edges, component[i]), Range(component), 1)
           + InnerEdges(edges, component, i + 1)

SetSubgraph_AndLine(nodes, members, id, score) ==
    [n \in DOMAIN nodes |->
        IF n \in members
        THEN [nodes[n] EXCEPT !.SubgraphID = id, !.SubgraphScore = score,
                              !.Line = id + 1]
        ELSE nodes[n]]

SetSubgraph_NoScore(nodes, members, id, score) ==
    [n \in DOMAIN nodes |->
        IF n \in members THEN [nodes[n] EXCEPT !.SubgraphID = id] ELSE nodes[n]]

\* The subgraph metadata written to the nodes of a component
SetSubgraph(nodes, members, id, score) ==
    [n \in DOMAIN nodes |->
        IF n \in members
        THEN [nodes[n] EXCEPT !.SubgraphID = id, !.SubgraphScore = score]
        ELSE nodes[n]]

\* The discovery loop over g.Nodes, visiting the seeds in the order no;
\* st = [visited, subgraphs, nodes]
RECURSIVE Discover(_, _, _, _, _)
Discover(edges, adj, no, i, st) ==
    IF i > Len(no) THEN st
    ELSE IF no[i] \in st.visited THEN Discover(edges, adj, no, i + 1, st)
    ELSE LET r == dfs(no[i], adj, [visited |-> st.visited, component |-> <<>>])
             edgeCount == InnerEdges(edges, r.component, 1)
             score == computeSubgraphScore(Len(r.component), edgeCount)
             subgraphID == Len(st.subgraphs)
         IN  Discover(edges, adj, no, i + 1,
                 [visited |-> r.visited,
                  subgraphs |-> Append(st.subgraphs,
                                   [ID |-> subgraphID, NodeIDs |-> r.component,
                                    EdgeCount |-> edgeCount, Score |-> score]),
                  nodes |-> SetSubgraph(st.nodes, Range(r.component),
                                        subgraphID, score)])

\* g.Subgraphs = make([]Subgraph, 0): the list the discovery appends to
NewSubgraphs(old) == <<>>

\* The list left in the order of discovery
SortedByScore_Unsorted(list) == {list}

\* sort.Slice by score descending: the sort is not stable, any arrangement
\* with no score below a later one may result
SortedByScore(list) ==
    {[i \in DOMAIN list |-> list[p[i]]] : p \in
        {q \in Orders(DOMAIN list) :
            \A i, j \in DOMAIN list : i < j => list[q[i]].Score >= list[q[j]].Score}}

\* The ids reassigned after the sort: the subgraph at list position i gets
\* the 0-based id i - 1
Renumber(list) == [i \in DOMAIN list |-> [list[i] EXCEPT !.ID = i - 1]]

\* The nodes left with the ids of the discovery
RenumberNodes_Skip(nodes, list, i) == nodes

\* The node fields reassigned after the sort
RECURSIVE RenumberNodes(_, _, _)
RenumberNodes(nodes, list, i) ==
    IF i > Len(list) THEN nodes
    ELSE RenumberNodes(
             [n \in DOMAIN nodes |->
                 IF n \in Range(list[i].NodeIDs)
                 THEN [nodes[n] EXCEPT !.SubgraphID = i - 1]
                 ELSE nodes[n]],
             list, i + 1)

\* The graphs ComputeSubgraphs may leave: [nodes, subgraphs], one for every
\* order of the range over g.Edges, order of the range over g.Nodes and
\* outcome of the sort
ComputeResults(nodes, edges, old) ==
    IF DOMAIN nodes = {} THEN {[nodes |-> nodes, subgraphs |-> old]}
    ELSE LET adjs == {Adjacency(nodes, edges, eo) : eo \in Orders(DOMAIN edges)}
             found == {Discover(edges, adj, no, 1,
                           [visited |-> {}, subgraphs |-> NewSubgraphs(old),
                            nodes |-> nodes]) :
                         adj \in adjs, no \in Orders(DOMAIN nodes)}
         IN  UNION {{[nodes |-> RenumberNodes(d.nodes, sorted, 1),
                      subgraphs |-> Renumber(sorted)] :
                        sorted \in SortedByScore(d.subgraphs)} : d \in found}

-----------------------------------------------------------------------------
(* A DependencyGraph used directly: the maps are public *)

MaxNodes == 3      \* node ids
MaxEdges == 3      \* entries of all target lists together
MaxCompute == 2    \* consecutive calls of ComputeSubgraphs on an unchanged graph

IdPool == <<"A", "B", "C", "D", "E">>
Ids == {IdPool[i] : i \in 1..MaxNodes}

\* graph.NewDependencyGraph(): empty node and edge maps
InitGraph ==
    /\ packages = <<>>
    /\ projectObjects = EmptyMap
    /\ Nodes = EmptyMap
    /\ Edges = EmptyMap
    /\ Subgraphs = <<>>
    /\ analyzed = 0
    /\ computed = 0
    /\ call = <<>>
    /\ ret = 0
    /\ trav = NoTraversal

\* g.Nodes[id] = &Node{ID: id, Name: id}, for an id the map does not hold
PutNode(id) ==
    /\ id \notin DOMAIN Nodes
    /\ Nodes' = MapPut(Nodes, id,
                    [ID |-> id, Name |-> id, Kind |-> "", Package |-> "",
                     Line |-> 0, SubgraphID |-> 0, SubgraphScore |-> 0])
    /\ computed' = 0
    /\ UNCHANGED <<packages, projectObjects, Edges, Subgraphs, analyzed, call, ret, trav>>

\* g.Edges[source] = append(g.Edges[source], target)
AddEdge(source, target) ==
    /\ SumLen(Edges, DOMAIN Edges) < MaxEdges
    /\ Edges' = MapPut(Edges, source, Append(Get(Edges, source), target))
    /\ computed' = 0
    /\ UNCHANGED <<packages, projectObjects, Nodes, Subgraphs, analyzed, call, ret, trav>>

ComputeSubgraphs ==
    /\ computed < MaxCompute
    /\ \E r \in ComputeResults(Nodes, Edges, Subgraphs) :
         /\ Nodes' = r.nodes
         /\ Subgraphs' = r.subgraphs
    /\ computed' = computed + 1
    /\ UNCHANGED <<packages, projectObjects, Edges, analyzed, call, ret, trav>>

NextGraph ==
    \/ \E id \in Ids : PutNode(id)
    \/ \E source \in Ids, target \in Ids : AddEdge(source, target)
    \/ ComputeSubgraphs

SpecGraph == InitGraph /\ [][NextGraph]_vars

-----------------------------------------------------------------------------
(* pkg/graph/subgraph.go: queries over the computed components *)

\* A *Subgraph is the position of the component in g.Subgraphs; nil is 0
NilSubgraph == 0

GetSubgraphByID_OrLast(id) ==
    LET hits == {i \in DOMAIN Subgraphs : Subgraphs[i].ID = id}
    IN  IF hits = {} THEN Len(Subgraphs)
        ELSE CHOOSE i \in hits : \A j \in hits : i <= j

\* The first component whose ID field is id, nil when there is none
GetSubgraphByID(id) ==
    LET hits == {i \in DOMAIN Subgraphs : Subgraphs[i].ID = id}
    IN  IF hits = {} THEN NilSubgraph
        ELSE CHOOSE i \in hits : \A j \in hits : i <= j

\* The component the SubgraphID of the node names, nil for an id that is
\* not a key of the node map
GetNodeSubgraph(nodeID) ==
    IF nodeID \in DOMAIN Nodes THEN GetSubgraphByID(Nodes[nodeID].SubgraphID)
    ELSE NilSubgraph

GetLargestSubgraph_Last ==
    Len(Subgraphs)

\* The first component of the sorted list, nil when the list is empty
GetLargestSubgraph ==
    IF Len(Subgraphs) = 0 THEN NilSubgraph ELSE 1

-----------------------------------------------------------------------------
(* Ranking: graphs over the five nodes of TestGetLargestSubgraph *)

RankNodes == {"A", "B", "C", "D", "E"}

\* The edges a graph may hold, in the order they are appended
RankEdgePool ==
    <<<<"A", "B">>, <<"B", "A">>, <<"B", "C">>, <<"C", "D">>, <<"D", "E">>>>

\* The graphs hold at least the three edges of the test
MinRankEdges == 3

\* g.Edges[source] = append(g.Edges[source], target) for the chosen edges
RECURSIVE RankEdges(_, _, _)
RankEdges(chosen, i, edges) ==
    IF i > Len(RankEdgePool) THEN edges
    ELSE LET e == RankEdgePool[i]
         IN  RankEdges(chosen, i + 1,
                 IF i \in chosen
                 THEN MapPut(edges, e[1], Append(Get(edges, e[1]), e[2]))
                 ELSE edges)

InitRank ==
    /\ packages = <<>>
    /\ projectObjects = EmptyMap
    /\ Nodes = [id \in RankNodes |->
                  [ID |-> id, Name |-> id, Kind |-> "", Package |-> "",
                   Line |-> 0, SubgraphID |-> 0, SubgraphScore |-> 0]]
    /\ \E chosen \in SUBSET DOMAIN RankEdgePool :
         /\ Cardinality(chosen) >= MinRankEdges
         /\ Edges = RankEdges(chosen, 1, EmptyMap)
    /\ Subgraphs = <<>>
    /\ analyzed = 0
    /\ computed = 0
    /\ call = <<>>
    /\ ret = 0
    /\ trav = NoTraversal

NextRank == ComputeSubgraphs

SpecRank == InitRank /\ [][NextRank]_vars

-----------------------------------------------------------------------------
(* The score function called on its own, as TestComputeSubgraphScore does *)

MaxNodeCount == 10    \* nodeCount of the largest case of the test
MaxEdgeCount == 20    \* edgeCount of the largest case of the test

\* score := computeSubgraphScore(nodeCount, edgeCount)
CallScore(nodeCount, edgeCount) ==
    /\ call' = <<"computeSubgraphScore", nodeCount, edgeCount>>
    /\ ret' = computeSubgraphScore(nodeCount, edgeCount)
    /\ UNCHANGED <<packages, projectObjects, Nodes, Edges, Subgraphs, analyzed,
                   computed, trav>>

NextScore ==
    \E nodeCount \in 0..MaxNodeCount, edgeCount \in 0..MaxEdgeCount :
        CallScore(nodeCount, edgeCount)

SpecScore == InitGraph /\ [][NextScore]_vars

-----------------------------------------------------------------------------
(* A graph that is computed, changed and queried: the two nodes of         *)
(* TestGetSubgraphByID, edge lists over them, and the queries of the tests *)

MaxTargets == 2    \* entries of one target list

QueryNodes == {"A", "B"}
QueryNodeIDs == QueryNodes \cup {"NonExistent"}
QuerySubgraphIDs == {-1, 0, 1, 2, 999}

\* The target lists a source may have, the empty list among them
TargetLists == UNION {[1..k -> QueryNodes] : k \in 0..MaxTargets}

InitQuery ==
    /\ packages = <<>>
    /\ projectObjects = EmptyMap
    /\ \E ids \in SUBSET QueryNodes :
         Nodes = [id \in ids |->
                    [ID |-> id, Name |-> id, Kind |-> "", Package |-> "",
                     Line |-> 0, SubgraphID |-> 0, SubgraphScore |-> 0]]
    /\ \E sources \in SUBSET QueryNodes : Edges \in [sources -> TargetLists]
    /\ Subgraphs = <<>>
    /\ analyzed = 0
    /\ computed = 0
    /\ call = <<>>
    /\ ret = 0
    /\ trav = NoTraversal

\* delete(g.Nodes, id): the node map is public
DeleteNode(id) ==
    /\ id \in DOMAIN Nodes
    /\ Nodes' = [n \in DOMAIN Nodes \ {id} |-> Nodes[n]]
    /\ computed' = 0
    /\ UNCHANGED <<packages, projectObjects, Edges, Subgraphs, analyzed, call, ret, trav>>

CallGetSubgraphByID(id) ==
    /\ call' = <<"GetSubgraphByID", id>>
    /\ ret' = GetSubgraphByID(id)
    /\ UNCHANGED <<packages, projectObjects, Nodes, Edges, Subgraphs, analyzed,
                   computed, trav>>

CallGetNodeSubgraph(nodeID) ==
    /\ call' = <<"GetNodeSubgraph", nodeID>>
    /\ ret' = GetNodeSubgraph(nodeID)
    /\ UNCHANGED <<packages, projectObjects, Nodes, Edges, Subgraphs, analyzed,
                   computed, trav>>

CallGetLargestSubgraph ==
    /\ call' = <<"GetLargestSubgraph">>
    /\ ret' = GetLargestSubgraph
    /\ UNCHANGED <<packages, projectObjects, Nodes, Edges, Subgraphs, analyzed,
                   computed, trav>>

CallCountEdges ==
    /\ call' = <<"CountEdges">>
    /\ ret' = CountEdges
    /\ UNCHANGED <<packages, projectObjects, Nodes, Edges, Subgraphs, analyzed,
                   computed, trav>>

\* The graph is changed and computed first and queried afterwards: the
\* queries write nothing, so a change after a query reaches no new graph
NextQuery ==
    \/ call = <<>> /\ ComputeSubgraphs
    \/ call = <<>> /\ \E id \in QueryNodes : DeleteNode(id)
    \/ \E id \in QuerySubgraphIDs : CallGetSubgraphByID(id)
    \/ \E nodeID \in QueryNodeIDs : CallGetNodeSubgraph(nodeID)
    \/ CallGetLargestSubgraph
    \/ CallCountEdges

SpecQuery == InitQuery /\ [][NextQuery]_vars

-----------------------------------------------------------------------------
(* The discovery loop of ComputeSubgraphs and dfs, one step at a time, on   *)
(* the three nodes of TestComputeSubgraphs_SingleComponent                  *)

TraversalNodes == {"A", "B", "C"}

\* The edges a graph may hold, in the order they are appended: the six
\* between two nodes and a self-loop
TraversalEdgePool ==
    <<<<"A", "B">>, <<"B", "A">>, <<"B", "C">>, <<"C", "B">>, <<"C", "A">>,
      <<"A", "C">>, <<"A", "A">>>>

RECURSIVE TraversalEdges(_, _, _)
TraversalEdges(chosen, i, edges) ==
    IF i > Len(TraversalEdgePool) THEN edges
    ELSE LET e == TraversalEdgePool[i]
         IN  TraversalEdges(chosen, i + 1,
                 IF i \in chosen
                 THEN MapPut(edges, e[1], Append(Get(edges, e[1]), e[2]))
                 ELSE edges)

\* The graph is filled, the adjacency is built and the range over g.Nodes
\* is about to visit the ids in the order trav.order
InitTraversal ==
    /\ packages = <<>>
    /\ projectObjects = EmptyMap
    /\ Nodes = [id \in TraversalNodes |->
                  [ID |-> id, Name |-> id, Kind |-> "", Package |-> "",
                   Line |-> 0, SubgraphID |-> 0, SubgraphScore |-> 0]]
    /\ \E chosen \in SUBSET DOMAIN TraversalEdgePool :
         Edges = TraversalEdges(chosen, 1, EmptyMap)
    /\ Subgraphs = <<>>
    /\ analyzed = 0
    /\ computed = 0
    /\ call = <<>>
    /\ ret = 0
    /\ \E eo \in Orders(DOMAIN Edges), no \in Orders(DOMAIN Nodes) :
         trav = [NoTraversal EXCEPT !.adjacency = Adjacency(Nodes, Edges, eo),
                                    !.order = no]

\* The frame of the innermost dfs call: its nodeID and the position k of
\* its range over adjacency[nodeID]
TopFrame == trav.stack[Len(trav.stack)]

\* The loop over g.Nodes is at an id that is visited already
SkipVisited ==
    /\ trav.stack = <<>>
    /\ trav.next <= Len(trav.order)
    /\ trav.order[trav.next] \in trav.visited
    /\ trav' = [trav EXCEPT !.next = @ + 1]
    /\ UNCHANGED <<packages, projectObjects, Nodes, Edges, Subgraphs, analyzed,
                   computed, call, ret>>

\* The loop over g.Nodes is at an unvisited id: a new component, and the
\* call dfs(nodeID, ...) that marks the id and appends it
StartComponent ==
    /\ trav.stack = <<>>
    /\ trav.next <= Len(trav.order)
    /\ trav.order[trav.next] \notin trav.visited
    /\ LET nodeID == trav.order[trav.next]
       IN  trav' = [trav EXCEPT !.stack = <<[nodeID |-> nodeID, k |-> 1]>>,
                                !.visited = @ \cup {nodeID},
                                !.component = <<nodeID>>]
    /\ UNCHANGED <<packages, projectObjects, Nodes, Edges, Subgraphs, analyzed,
                   computed, call, ret>>

\* The innermost dfs call takes its next neighbour and calls dfs on it if
\* it is unvisited
DfsNeighbor ==
    /\ trav.stack # <<>>
    /\ TopFrame.k <= Len(Get(trav.adjacency, TopFrame.nodeID))
    /\ LET neighbor == Get(trav.adjacency, TopFrame.nodeID)[TopFrame.k]
           advanced == [trav.stack EXCEPT ![Len(trav.stack)].k = @ + 1]
       IN  IF neighbor \in trav.visited
           THEN trav' = [trav EXCEPT !.stack = advanced]
           ELSE trav' = [trav EXCEPT
                           !.stack = Append(advanced, [nodeID |-> neighbor, k |-> 1]),
                           !.visited = @ \cup {neighbor},
                           !.component = Append(@, neighbor)]
    /\ UNCHANGED <<packages, projectObjects, Nodes, Edges, Subgraphs, analyzed,
                   computed, call, ret>>

\* A return that starts the range over the neighbours again
DfsReturn_Restart ==
    /\ trav.stack # <<>>
    /\ TopFrame.k > Len(Get(trav.adjacency, TopFrame.nodeID))
    /\ trav' = [trav EXCEPT !.stack = [@ EXCEPT ![Len(@)].k = 1]]
    /\ UNCHANGED <<packages, projectObjects, Nodes, Edges, Subgraphs, analyzed,
                   computed, call, ret>>

\* The innermost dfs call has ranged over all its neighbours and returns;
\* when it is the outermost, the component is complete and the loop over
\* g.Nodes goes on
DfsReturn ==
    /\ trav.stack # <<>>
    /\ TopFrame.k > Len(Get(trav.adjacency, TopFrame.nodeID))
    /\ IF Len(trav.stack) = 1
       THEN trav' = [trav EXCEPT !.stack = <<>>,
                                 !.components = Append(@, trav.component),
                                 !.next = @ + 1]
       ELSE trav' = [trav EXCEPT !.stack = SubSeq(@, 1, Len(@) - 1)]
    /\ UNCHANGED <<packages, projectObjects, Nodes, Edges, Subgraphs, analyzed,
                   computed, call, ret>>

NextTraversal ==
    \/ SkipVisited
    \/ StartComponent
    \/ DfsNeighbor
    \/ DfsReturn

SpecTraversal == InitTraversal /\ [][NextTraversal]_vars

\* The program runs on: a step that can be taken is taken
SpecTraversalFair == SpecTraversal /\ WF_vars(NextTraversal)

-----------------------------------------------------------------------------
(* The build phase: properties of the graph Analyze returns *)

BuildDone == analyzed >= 1
FirstBuildDone == analyzed = 1

\* The declarations the Resolver scans: collected function declarations
Scanned(i) == Collected(packages[i]) /\ packages[i].decl = "FuncDecl"

\* Declaration i has an identifier occurrence that denotes declaration t
Refers(i, t) == t \in Range(packages[i].idents)

\* The ids a scan of declaration i is specified to record: the ids of the
\* collected declarations its identifiers denote, other than its own id
RefTargets(i) ==
    {DeclNode(packages, t).ID : t \in {u \in DOMAIN packages :
        /\ Refers(i, u)
        /\ Collected(packages[u])
        /\ DeclNode(packages, u).ID # DeclNode(packages, i).ID}}

EdgePairs == UNION {{<<s, t>> : t \in Range(Edges[s])} : s \in DOMAIN Edges}

\* C1: after the build phase every target id of every edge list is a key of
\* the node map, and every edge comes from an identifier of a scanned
\* declaration that denotes a collected declaration: an occurrence that is
\* unresolved or denotes an uncollected declaration adds no edge.
C1_TargetsAreNodes ==
    BuildDone =>
        \A s \in DOMAIN Edges : \A k \in DOMAIN Edges[s] :
            /\ Edges[s][k] \in DOMAIN Nodes
            /\ \E i \in DOMAIN packages :
                 /\ Scanned(i)
                 /\ DeclNode(packages, i).ID = s
                 /\ Edges[s][k] \in RefTargets(i)

\* A scanned declaration with an edge, and with an identifier that is
\* unresolved or denotes a declaration outside the project
C1_Witness ==
    /\ BuildDone
    /\ \E i \in DOMAIN packages :
         /\ Scanned(i)
         /\ DeclNode(packages, i).ID \in DOMAIN Edges
         /\ \E j \in DOMAIN packages[i].idents :
              \/ packages[i].idents[j] = NilObj
              \/ ~Collected(packages[packages[i].idents[j]])

\* C2: after the build phase no target list repeats a target id, so that
\* CountEdges() is the number of distinct (source, target) pairs; claimed
\* also when two declarations receive the same id.
C2_NoRepeatedTarget ==
    FirstBuildDone =>
        /\ \A s \in DOMAIN Edges : \A j, k \in DOMAIN Edges[s] :
               j # k => Edges[s][j] # Edges[s][k]
        /\ CountEdges = Cardinality(EdgePairs)

\* C3: after the build phase no edge has its source id as its target id.
C3_NoSelfLoop ==
    BuildDone =>
        \A s \in DOMAIN Edges : \A k \in DOMAIN Edges[s] : Edges[s][k] # s

\* A scanned declaration with an identifier that denotes a declaration of
\* its own id (itself, or a second declaration of the same id)
C3_Witness ==
    /\ BuildDone
    /\ \E i \in DOMAIN packages :
         /\ Scanned(i)
         /\ \E t \in DOMAIN packages :
              /\ Refers(i, t)
              /\ Collected(packages[t])
              /\ DeclNode(packages, t).ID = DeclNode(packages, i).ID

\* C4: for every function or method node S of the node map, the targets of
\* edges[S.id] are exactly the ids of the collected declarations that the
\* identifiers of S's own declaration denote, S.id excepted.
C4_EdgesAreOwnReferences ==
    FirstBuildDone =>
        \A id \in DOMAIN Nodes :
            Nodes[id].Kind \in {KindFunction, KindMethod} =>
                Range(Get(Edges, id)) = RefTargets(Nodes[id].Line)

-----------------------------------------------------------------------------
(* Component analysis: properties of the graph ComputeSubgraphs leaves *)

Computed == computed >= 1

\* Every source and every target of the edge map is a key of the node map
EndpointsAreNodes ==
    \A s \in DOMAIN Edges : s \in DOMAIN Nodes /\ Range(Edges[s]) \subseteq DOMAIN Nodes

Members(sg) == Range(sg.NodeIDs)

\* An edge joins a and b, in either direction
Linked(a, b) == b \in Range(Get(Edges, a)) \/ a \in Range(Get(Edges, b))

\* The ids joined to an id of S by a path of edges taken in either direction
RECURSIVE Joined(_)
Joined(S) ==
    LET T == S \cup {b \in DOMAIN Nodes \cup DOMAIN Edges : \E a \in S : Linked(a, b)}
    IN  IF T = S THEN S ELSE Joined(T)

SameSubgraph(a, b) ==
    \E i \in DOMAIN Subgraphs : a \in Members(Subgraphs[i]) /\ b \in Members(Subgraphs[i])

\* C5: on a graph whose edge endpoints are all nodes, every node id is in
\* exactly one component, once, and two node ids share a component iff a path
\* of edges taken in either direction joins them.
C5_ConnectedComponents ==
    (Computed /\ EndpointsAreNodes) =>
        /\ \A n \in DOMAIN Nodes :
             Cardinality({i \in DOMAIN Subgraphs : n \in Members(Subgraphs[i])}) = 1
        /\ \A i \in DOMAIN Subgraphs :
             /\ Members(Subgraphs[i]) \subseteq DOMAIN Nodes
             /\ Cardinality(Members(Subgraphs[i])) = Len(Subgraphs[i].NodeIDs)
        /\ \A a, b \in DOMAIN Nodes : SameSubgraph(a, b) <=> b \in Joined({a})

\* Two components, one of them holding a node that has only incoming edges
C5_Witness ==
    /\ Computed
    /\ EndpointsAreNodes
    /\ Len(Subgraphs) >= 2
    /\ \E a, b \in DOMAIN Nodes :
         /\ a # b
         /\ b \in Range(Get(Edges, a))
         /\ Get(Edges, b) = <<>>
         /\ SameSubgraph(a, b)

\* The entries <<u, k>> of the target lists of members that name a member
InnerEntries(S) ==
    UNION {{<<u, k>> : k \in {j \in DOMAIN Edges[u] : Edges[u][j] \in S}} :
             u \in S \cap DOMAIN Edges}

\* C6: the edgeCount of every component is the number of edge-list entries
\* from a member to a member, each directed edge counted once.
C6_EdgeCount ==
    Computed =>
        \A i \in DOMAIN Subgraphs :
            Subgraphs[i].EdgeCount = Cardinality(InnerEntries(Members(Subgraphs[i])))

\* The cycle of three nodes: one component of three members and three edges
C6_Witness ==
    /\ Computed
    /\ EndpointsAreNodes
    /\ \E i \in DOMAIN Subgraphs :
         /\ Cardinality(Members(Subgraphs[i])) = 3
         /\ Subgraphs[i].EdgeCount = 3
         /\ \A u \in Members(Subgraphs[i]) :
              Len(Get(Edges, u)) = 1 /\ Edges[u][1] # u

\* C7: the component list is ordered by score descending, and the component
\* at list index i (0-based) has id i.
C7_SortedAndNumbered ==
    Computed =>
        /\ \A i, j \in DOMAIN Subgraphs :
             i < j => Subgraphs[i].Score >= Subgraphs[j].Score
        /\ \A i \in DOMAIN Subgraphs : Subgraphs[i].ID = i - 1

\* Three components of two different scores
C7_Witness ==
    /\ Computed
    /\ Len(Subgraphs) = 3
    /\ Subgraphs[1].Score > Subgraphs[3].Score

\* C8: on a graph whose edge endpoints are all nodes, the component whose id
\* is a node's SubgraphID lists the node, and the node's SubgraphScore is
\* that component's score.
C8_NodeMetadata ==
    (Computed /\ EndpointsAreNodes) =>
        \A n \in DOMAIN Nodes :
            /\ \E i \in DOMAIN Subgraphs : Subgraphs[i].ID = Nodes[n].SubgraphID
            /\ \A i \in DOMAIN Subgraphs :
                 Subgraphs[i].ID = Nodes[n].SubgraphID =>
                     /\ n \in Members(Subgraphs[i])
                     /\ Nodes[n].SubgraphScore = Subgraphs[i].Score

\* A node of the second-ranked component
C8_Witness ==
    /\ Computed
    /\ EndpointsAreNodes
    /\ Len(Subgraphs) >= 2
    /\ Subgraphs[1].Score > Subgraphs[2].Score
    /\ \E n \in DOMAIN Nodes :
         /\ Nodes[n].SubgraphID = 1
         /\ n \in Members(Subgraphs[2])

\* The partition with its edge counts and scores
Summary(list) ==
    {[members |-> Members(list[i]), edgeCount |-> list[i].EdgeCount,
      score |-> list[i].Score] : i \in DOMAIN list}

NodeScores(nodes) == [n \in DOMAIN nodes |-> nodes[n].SubgraphScore]

\* C9: a second ComputeSubgraphs on the unchanged graph leaves the same
\* partition with the same edge counts and scores, as many components, and
\* the same SubgraphScore on every node.
C9_Idempotent ==
    [][(computed >= 1 /\ computed' = computed + 1) =>
          /\ Summary(Subgraphs') = Summary(Subgraphs)
          /\ Len(Subgraphs') = Len(Subgraphs)
          /\ NodeScores(Nodes') = NodeScores(Nodes)]_vars

\* The ids of the components, by member set, and of the nodes
SubgraphIDs(list) == {<<Members(list[i]), list[i].ID>> : i \in DOMAIN list}
NodeSubgraphIDs(nodes) == [n \in DOMAIN nodes |-> nodes[n].SubgraphID]

DistinctScores(list) ==
    \A i, j \in DOMAIN list : i # j => list[i].Score # list[j].Score

\* C10: on a graph whose edge endpoints are all nodes, every order of the
\* ranges over the node map and the edge map yields the partition, edge
\* counts and scores the graph holds, and, when the scores are pairwise
\* distinct, the same component ids and SubgraphID of every node.
C10_OrderIndependent ==
    (Computed /\ EndpointsAreNodes) =>
        \A r \in ComputeResults(Nodes, Edges, Subgraphs) :
            /\ Summary(r.subgraphs) = Summary(Subgraphs)
            /\ Len(r.subgraphs) = Len(Subgraphs)
            /\ DistinctScores(Subgraphs) =>
                 /\ SubgraphIDs(r.subgraphs) = SubgraphIDs(Subgraphs)
                 /\ NodeSubgraphIDs(r.nodes) = NodeSubgraphIDs(Nodes)

\* Two components of different scores on a graph with two edge sources
C10_Witness ==
    /\ Computed
    /\ EndpointsAreNodes
    /\ Len(Subgraphs) = 2
    /\ DistinctScores(Subgraphs)
    /\ Cardinality(DOMAIN Edges) >= 2

-----------------------------------------------------------------------------
(* Ranking and queries *)

\* A component whose edge count is one less than its member count
IsChain(sg) == sg.EdgeCount = Len(sg.NodeIDs) - 1

\* C11 as stated: the first-ranked component has at least as many members
\* as every other component.
C11_FirstHasMostMembers ==
    (Computed /\ DOMAIN Nodes # {}) =>
        /\ GetLargestSubgraph # NilSubgraph
        /\ \A i \in DOMAIN Subgraphs :
             Len(Subgraphs[GetLargestSubgraph].NodeIDs) >= Len(Subgraphs[i].NodeIDs)

\* C11: the component GetLargestSubgraph returns is the first of the list
\* and no component has a greater score; of two chains the one with more
\* members has the strictly greater score and the earlier position.
C11_FirstHasTopScore ==
    (Computed /\ DOMAIN Nodes # {}) =>
        /\ GetLargestSubgraph = 1
        /\ \A i \in DOMAIN Subgraphs :
             Subgraphs[GetLargestSubgraph].Score >= Subgraphs[i].Score
        /\ \A i, j \in DOMAIN Subgraphs :
             (/\ IsChain(Subgraphs[i])
              /\ IsChain(Subgraphs[j])
              /\ Len(Subgraphs[i].NodeIDs) > Len(Subgraphs[j].NodeIDs)) =>
                 Subgraphs[i].Score > Subgraphs[j].Score /\ i < j

\* The chain A, B, C is ranked before the chain D, E
C11_Witness ==
    /\ Computed
    /\ Len(Subgraphs) = 2
    /\ GetLargestSubgraph = 1
    /\ IsChain(Subgraphs[1]) /\ Members(Subgraphs[1]) = {"A", "B", "C"}
    /\ IsChain(Subgraphs[2]) /\ Members(Subgraphs[2]) = {"D", "E"}
    /\ Subgraphs[1].Score > Subgraphs[2].Score

-----------------------------------------------------------------------------
(* The score function *)

\* The last call was computeSubgraphScore(call[2], call[3]) and returned ret
ScoreCalled == Len(call) = 3 /\ call[1] = "computeSubgraphScore"

\* The value the formula gives, in millionths
ScoreFormula(n, e) ==
    IF n = 0 THEN 0
    ELSE IF n = 1 THEN Log2Micro(2) + 2 * e * 1000000
    ELSE n * Log2Micro(n + 1) + 2 * e * 1000000 + (5 * e * 1000000) \div (n - 1)

-----------------------------------------------------------------------------
(* Isolated nodes *)

\* C13: on a graph of one node or more and no edge, there are as many
\* components as nodes, each of one member, edge count 0 and score 1.0, and
\* the SubgraphScore of every node is 1.0.
C13_IsolatedNodes ==
    (Computed /\ DOMAIN Nodes # {} /\ CountEdges = 0) =>
        /\ Len(Subgraphs) = Cardinality(DOMAIN Nodes)
        /\ \A i \in DOMAIN Subgraphs :
             /\ Len(Subgraphs[i].NodeIDs) = 1
             /\ Subgraphs[i].EdgeCount = 0
             /\ Subgraphs[i].Score = 1000000
        /\ \A n \in DOMAIN Nodes : Nodes[n].SubgraphScore = 1000000

\* Three nodes without edges, computed
C13_Witness ==
    /\ Computed
    /\ CountEdges = 0
    /\ Cardinality(DOMAIN Nodes) = 3
    /\ Len(Subgraphs) = 3

-----------------------------------------------------------------------------
(* Queries *)

\* Every id the graph names: the keys of both maps and the targets
AllIds == DOMAIN Nodes \cup DOMAIN Edges \cup UNION {Range(Edges[s]) : s \in DOMAIN Edges}

\* The ids a path of edges, taken in either direction, joins to an id of S
RECURSIVE Reach(_)
Reach(S) ==
    LET T == S \cup {b \in AllIds : \E a \in S : Linked(a, b)}
    IN  IF T = S THEN S ELSE Reach(T)

\* C14: for every key n of the node map GetNodeSubgraph(n) is a component
\* that contains n, and for keys a and b it is the same component exactly
\* when a path of edges taken in either direction joins a and b.
C14_NodeSubgraph ==
    Computed =>
        /\ \A n \in DOMAIN Nodes :
             /\ GetNodeSubgraph(n) # NilSubgraph
             /\ n \in Members(Subgraphs[GetNodeSubgraph(n)])
        /\ \A a, b \in DOMAIN Nodes :
             GetNodeSubgraph(a) = GetNodeSubgraph(b) <=> b \in Reach({a})

\* The last call, by name
Called(name) == Len(call) >= 1 /\ call[1] = name

\* C15: GetSubgraphByID of an id no component carries and GetNodeSubgraph
\* of an id that is not a key of the node map return nil; GetLargestSubgraph
\* returns nil when the list is empty and its first component otherwise.
C15_AbsenceIsNil ==
    /\ (Called("GetSubgraphByID")
          /\ \A i \in DOMAIN Subgraphs : Subgraphs[i].ID # call[2]) =>
            ret = NilSubgraph
    /\ (Called("GetNodeSubgraph") /\ call[2] \notin DOMAIN Nodes) =>
            ret = NilSubgraph
    /\ Called("GetLargestSubgraph") =>
            ret = (IF Subgraphs = <<>> THEN NilSubgraph ELSE 1)

\* GetSubgraphByID(999) returned nil on a graph that has components
C15_Witness ==
    /\ Computed
    /\ Len(Subgraphs) >= 1
    /\ Called("GetSubgraphByID")
    /\ call[2] = 999
    /\ ret = NilSubgraph

-----------------------------------------------------------------------------
(* The empty node map *)

\* C16: a ComputeSubgraphs call on an empty node map changes nothing and
\* leaves zero components.
C16_EmptyIsNoOp ==
    [][(DOMAIN Nodes = {} /\ computed' = computed + 1) =>
          /\ Nodes' = Nodes
          /\ Subgraphs' = Subgraphs
          /\ Len(Subgraphs') = 0]_vars

-----------------------------------------------------------------------------
(* CountEdges *)

\* The entries <<source, position>> of all target lists
EdgeEntries == UNION {{<<s, k>> : k \in DOMAIN Edges[s]} : s \in DOMAIN Edges}

\* C17: CountEdges returns the number of entries of all target lists (0 for
\* an empty edge map, nothing for an empty list), changes neither map nor the
\* components, and returns what the call before it returned.
C17_CountEdges ==
    [][Called("CountEdges")' =>
          /\ ret' = Cardinality(EdgeEntries)
          /\ (DOMAIN Edges = {} => ret' = 0)
          /\ UNCHANGED <<Nodes, Edges, Subgraphs>>
          /\ (Called("CountEdges") => ret' = ret)]_vars

\* CountEdges returned 2 for two sources, one of them with an empty list
C17_Witness ==
    /\ Called("CountEdges")
    /\ ret = 2
    /\ Cardinality(DOMAIN Edges) = 2
    /\ \E s \in DOMAIN Edges : Edges[s] = <<>>

-----------------------------------------------------------------------------
(* Packages outside the module *)

\* C18: a declaration of a package without a module gives the node map no
\* node, projectObjects no entry and the edge map no source.
C18_NonModuleSkipped ==
    BuildDone =>
        \A i \in DOMAIN packages :
            ~packages[i].pkg.Module =>
                /\ \A id \in DOMAIN Nodes :
                     Nodes[id].Package # packages[i].pkg.PkgPath
                /\ DeclNode(packages, i).ID \notin DOMAIN Nodes
                /\ packages[i].obj \notin DOMAIN projectObjects
                /\ DeclNode(packages, i).ID \notin DOMAIN Edges

\* A function of a package without a module refers to a collected
\* declaration of the project, next to a project function that has an edge
C18_Witness ==
    /\ BuildDone
    /\ DOMAIN Edges # {}
    /\ \E i, t \in DOMAIN packages :
         /\ ~packages[i].pkg.Module
         /\ packages[i].decl = "FuncDecl"
         /\ Collected(packages[t])
         /\ Refers(i, t)

-----------------------------------------------------------------------------
(* Names and ids *)

\* Declaration i is a collected method
IsMethod(i) ==
    /\ Collected(packages[i])
    /\ packages[i].decl = "FuncDecl"
    /\ packages[i].recv # "none"

\* C19: a method with receiver *T is named "(*T).m" and one with receiver
\* T is named "T.m"; two methods of one package with the same short name and
\* different receiver types have different ids, and the node map holds a
\* node for each of them.
C19_MethodsByReceiver ==
    BuildDone =>
        /\ \A i \in DOMAIN packages :
             IsMethod(i) =>
                /\ packages[i].recv = "ptr" =>
                     DeclNode(packages, i).Name
                        = "(*" \o packages[i].recvType \o ")." \o packages[i].name
                /\ packages[i].recv = "val" =>
                     DeclNode(packages, i).Name
                        = packages[i].recvType \o "." \o packages[i].name
        /\ \A i, j \in DOMAIN packages :
             (/\ IsMethod(i) /\ IsMethod(j)
              /\ packages[i].pkg = packages[j].pkg
              /\ packages[i].name = packages[j].name
              /\ packages[i].recvType # packages[j].recvType) =>
                /\ DeclNode(packages, i).ID # DeclNode(packages, j).ID
                /\ \E k \in DOMAIN Nodes : Nodes[k].Line = i
                /\ \E k \in DOMAIN Nodes : Nodes[k].Line = j

\* C20: every node has the id of its package path, "::" and its name, and
\* every key of the node map is the id of the node it maps to.
C20_IdIsKey ==
    BuildDone =>
        /\ \A i \in DOMAIN packages :
             Collected(packages[i]) =>
                LET node == DeclNode(packages, i)
                IN  /\ node.ID = packages[i].pkg.PkgPath \o "::" \o node.Name
                    /\ node.ID \in DOMAIN Nodes
        /\ \A k \in DOMAIN Nodes :
             /\ Nodes[k].ID = k
             /\ k = Nodes[k].Package \o "::" \o Nodes[k].Name

\* The node map holds the methods (*T).m and U.m and the function m
C20_Witness ==
    /\ BuildDone
    /\ {"a::(*T).m", "a::U.m", "a::m"} \subseteq DOMAIN Nodes

-----------------------------------------------------------------------------
(* Declarations with one id *)

\* Collected declarations i and j, i before j, give the same id
SameId(i, j) ==
    /\ i < j
    /\ Collected(packages[i])
    /\ Collected(packages[j])
    /\ DeclNode(packages, i).ID = DeclNode(packages, j).ID

\* C21: when two collected declarations give the same id, the node map
\* holds under that id the node of the one collected last, with its kind and
\* line, and no node of the earlier one.
C21_LaterReplaces ==
    BuildDone =>
        \A i, j \in DOMAIN packages :
            (SameId(i, j) /\ ~\E l \in DOMAIN packages : SameId(j, l)) =>
                LET id == DeclNode(packages, j).ID
                IN  /\ id \in DOMAIN Nodes
                    /\ Nodes[id] = DeclNode(packages, j)
                    /\ \A k \in DOMAIN Nodes : Nodes[k].Line # i

\* A function m and, after it, a method m of a generic receiver type: the
\* node under "a::m" is the method
C21_Witness ==
    /\ BuildDone
    /\ \E i, j \in DOMAIN packages :
         /\ SameId(i, j)
         /\ j = Len(packages)
         /\ DeclNode(packages, i).Kind = KindFunction
         /\ Nodes[DeclNode(packages, j).ID].Kind = KindMethod

-----------------------------------------------------------------------------
(* Collection before resolution *)

\* C22: every reference of a scanned function to a collected declaration
\* with another id is an edge, whether the target is declared before or
\* after the source.
C22_CollectThenResolve ==
    BuildDone =>
        \A i, t \in DOMAIN packages :
            (/\ Scanned(i)
             /\ Collected(packages[t])
             /\ Refers(i, t)
             /\ DeclNode(packages, t).ID # DeclNode(packages, i).ID) =>
                DeclNode(packages, t).ID
                    \in Range(Get(Edges, DeclNode(packages, i).ID))

\* A function refers to a declaration that comes after it, and to one that
\* comes before it
C22_Witness ==
    /\ BuildDone
    /\ \E i, t, u \in DOMAIN packages :
         /\ u < i /\ i < t
         /\ Scanned(i)
         /\ Collected(packages[t]) /\ Refers(i, t)
         /\ Collected(packages[u]) /\ Refers(i, u)
         /\ {DeclNode(packages, t).ID, DeclNode(packages, u).ID}
               \subseteq Range(Get(Edges, DeclNode(packages, i).ID))
         /\ DeclNode(packages, t).ID # DeclNode(packages, u).ID

-----------------------------------------------------------------------------
(* Component state of earlier calls *)

\* The nodes with no component state
Fresh(nodes) ==
    [n \in DOMAIN nodes |-> [nodes[n] EXCEPT !.SubgraphID = 0, !.SubgraphScore = 0]]

\* C23: after ComputeSubgraphs the component list and the SubgraphID and
\* SubgraphScore of every node are what a call on the same node and edge
\* maps without earlier component state leaves, also for an empty node map.
C23_NothingSurvives ==
    Computed =>
        [nodes |-> Nodes, subgraphs |-> Subgraphs]
            \in ComputeResults(Fresh(Nodes), Edges, <<>>)

-----------------------------------------------------------------------------
(* What ComputeSubgraphs leaves alone *)

\* C24: a ComputeSubgraphs call leaves the keys of the node map, the edge
\* map (hence CountEdges) and the id, name, kind, package and line of every
\* node as they were.
C24_OnlyComponentState ==
    [][computed' = computed + 1 =>
          /\ DOMAIN Nodes' = DOMAIN Nodes
          /\ Edges' = Edges
          /\ CountEdges' = CountEdges
          /\ \A n \in DOMAIN Nodes :
               /\ Nodes'[n].ID = Nodes[n].ID
               /\ Nodes'[n].Name = Nodes[n].Name
               /\ Nodes'[n].Kind = Nodes[n].Kind
               /\ Nodes'[n].Package = Nodes[n].Package
               /\ Nodes'[n].Line = Nodes[n].Line]_vars

\* A computed graph with edges in which a node has a component id other
\* than 0
C24_Witness ==
    /\ Computed
    /\ CountEdges >= 1
    /\ \E n \in DOMAIN Nodes : Nodes[n].SubgraphID # 0 /\ Nodes[n].SubgraphScore # 0

-----------------------------------------------------------------------------
(* Independence of the sources *)

\* The set of targets of every source id
TargetSets(edges) == [s \in DOMAIN edges |-> Range(edges[s])]

\* Every order of the scan gives every source id the targets it has
AnyOrderSameTargets ==
    \A order \in Orders(DOMAIN packages) :
        TargetSets(AnalyzeInOrder(packages, projectObjects, order, 1, EmptyMap))
            = TargetSets(Edges)

\* C25: the targets recorded for a scanned function are those its own
\* identifiers denote, and every order of the scan over the functions gives
\* every source id the same set of targets.
C25_SourcesIndependent ==
    FirstBuildDone =>
        /\ \A i \in DOMAIN packages :
             Scanned(i) =>
                Range(Get(Edges, DeclNode(packages, i).ID)) = RefTargets(i)
        /\ AnyOrderSameTargets

-----------------------------------------------------------------------------
(* Termination and depth of the traversal *)

\* The loop over g.Nodes has ended
TraversalDone == trav.stack = <<>> /\ trav.next > Len(trav.order)

\* No id is in the finished components or the current one twice
VisitedOnce ==
    LET all == trav.components
                 \o (IF trav.stack = <<>> THEN <<>> ELSE <<trav.component>>)
    IN  /\ \A i \in DOMAIN all : Cardinality(Range(all[i])) = Len(all[i])
        /\ \A i, j \in DOMAIN all : i # j => Range(all[i]) \cap Range(all[j]) = {}

\* The components of the step-by-step loop are those Discover returns
SameAsDiscover ==
    TraversalDone =>
        LET d == Discover(Edges, trav.adjacency, trav.order, 1,
                          [visited |-> {}, subgraphs |-> <<>>, nodes |-> Nodes])
        IN  trav.components = [i \in DOMAIN d.subgraphs |-> d.subgraphs[i].NodeIDs]

\* C26: the discovery loop ends on every graph, with directed cycles and
\* edges in both directions too, and no id is visited twice.
C26_Terminates == <>TraversalDone /\ []VisitedOnce

\* The loop has ended on the cycle A, B, C with one component of three
C26_Witness ==
    /\ TraversalDone
    /\ Len(trav.components) = 1
    /\ Len(trav.components[1]) = 3
    /\ {"A", "B", "C"} \subseteq DOMAIN Edges
    /\ CountEdges = 3

\* C27: the number of nested dfs calls is at most one, whatever the size
\* of the component.
C27_DepthBounded == Len(trav.stack) <= 1

-----------------------------------------------------------------------------
(* Analyze called again *)

\* C28: a second Analyze call on the same Analyzer leaves the node ids and
\* the target list of every source, hence CountEdges, as the first call
\* built them.
C28_SecondAnalyzeSame ==
    [][(analyzed >= 1 /\ analyzed' = analyzed + 1) =>
          /\ DOMAIN Nodes' = DOMAIN Nodes
          /\ Edges' = Edges
          /\ CountEdges' = CountEdges]_vars

-----------------------------------------------------------------------------
(* Members and edges of all components together *)

RECURSIVE SumSizes(_, _)
SumSizes(list, i) ==
    IF i > Len(list) THEN 0 ELSE Len(list[i].NodeIDs) + SumSizes(list, i + 1)

RECURSIVE SumEdgeCounts(_, _)
SumEdgeCounts(list, i) ==
    IF i > Len(list) THEN 0 ELSE list[i].EdgeCount + SumEdgeCounts(list, i + 1)

\* C29: on any graph, with edge sources or targets outside the node map
\* too, every member of every component is a key of the node map and the
\* sizes of the components sum to the number of nodes.
C29_MembersAreNodes ==
    Computed =>
        /\ \A i \in DOMAIN Subgraphs : Members(Subgraphs[i]) \subseteq DOMAIN Nodes
        /\ SumSizes(Subgraphs, 1) = Cardinality(DOMAIN Nodes)

\* C30: on a graph whose edge endpoints are all nodes, the edge counts of
\* the components sum to CountEdges, and source and target of every edge
\* are members of one component.
C30_EdgeCountsSum ==
    (Computed /\ EndpointsAreNodes) =>
        /\ SumEdgeCounts(Subgraphs, 1) = CountEdges
        /\ \A p \in EdgePairs : SameSubgraph(p[1], p[2])
        /\ \A n \in DOMAIN Nodes :
             Cardinality({i \in DOMAIN Subgraphs : n \in Members(Subgraphs[i])}) = 1

\* Two components, one of them with two edges from one source
C30_Witness ==
    /\ Computed
    /\ EndpointsAreNodes
    /\ Len(Subgraphs) = 2
    /\ CountEdges = 3
    /\ \E s \in DOMAIN Edges : Len(Edges[s]) = 2
    /\ SumEdgeCounts(Subgraphs, 1) = 3

=============================================================================
